---- MODULE Spec2Model ----
(***************************************************************************)
(* Model of the EchoOS command executor (modules/executor.py).             *)
(*                                                                         *)
(* Python strings are sequences of one-character strings, so that          *)
(* startswith, "in", lower() and replace() are computed character by       *)
(* character.  One call of Executor.execute is one action; what the call   *)
(* did to the outside world is recorded, in program order, in trace.       *)
(***************************************************************************)
EXTENDS Integers, Sequences, FiniteSets, TLC

VARIABLES
    platform,    \* Executor.platform: platform.system()
    registry,    \* content of config/apps.json when the Executor was built
    app_paths,   \* Executor.app_paths
    files,       \* regular files in the working directory
    procs,       \* names of the live processes
    volume,      \* output volume of the host, 0..100
    cmd,         \* the command of the last call
    env,         \* how the collaborators behaved during the last call
    before,      \* files, procs and volume when the last call started
    result,      \* outcome of the last call: "true", "false", "raised", "none"
    trace,       \* what the last call did, in program order
    is_listening,      \* EchoMainWindowEnhanced.is_listening
    is_authenticated,  \* EchoMainWindowEnhanced.is_authenticated
    start_btn,   \* start_btn.isEnabled()
    stop_btn,    \* stop_btn.isEnabled()
    login_btn,   \* login_btn.isEnabled()
    register_btn,  \* register_btn.isEnabled()
    logout_btn,  \* logout_btn.isEnabled()
    threads,     \* the threads _start_listening has started, in start order
    workers,     \* how many register and authenticate threads are running
    typed,       \* the typed command the main thread is executing
    closed,      \* closeEvent has been handled
    calls        \* the execute calls of two callers that run at the same time

\* the main window and its threads
uivars == <<is_listening, is_authenticated, start_btn, stop_btn, login_btn,
            register_btn, logout_btn, threads, workers, typed, closed, calls>>

vars == <<platform, registry, app_paths, files, procs, volume, cmd, env, before, result, trace,
          is_listening, is_authenticated, start_btn, stop_btn, login_btn,
          register_btn, logout_btn, threads, workers, typed, closed, calls>>

\* no command in hand
NoCommand == [keys |-> {}]

\* the main thread is in no typed command
Idle == [pc |-> "idle", cmd |-> NoCommand]

\* a caller that is in no execute call
NoCall == [pc |-> "idle", cmd |-> NoCommand, seen |-> FALSE, result |-> "none"]

\* EchoMainWindowEnhanced.__init__ and _init_ui: nobody is authenticated or
\* listening; Register and Login are enabled, Logout, Start and Stop are not
UIInit ==
    /\ is_listening = FALSE
    /\ is_authenticated = FALSE
    /\ start_btn = FALSE
    /\ stop_btn = FALSE
    /\ login_btn = TRUE
    /\ register_btn = TRUE
    /\ logout_btn = FALSE
    /\ threads = <<>>
    /\ workers = [register |-> 0, authenticate |-> 0]
    /\ typed = Idle
    /\ closed = FALSE
    /\ calls = [c \in {"voice", "typed"} |-> NoCall]

----------------------------------------------------------------------------
(* Bounds of the model *)

MaxLen == 3          \* longest filename of SpecValidate
MaxApps == 2         \* most entries of a registry file of SpecLoad
MaxSpeakFail == 2    \* most leading speak() calls of one execute that raise

----------------------------------------------------------------------------
(* Strings *)

Empty == <<>>

\* str.__contains__ : a in b
IsSubstr(a, b) ==
    \E i \in 0..(Len(b) - Len(a)) : SubSeq(b, i + 1, i + Len(a)) = a

\* str.startswith
StartsWith(s, p) == Len(s) >= Len(p) /\ SubSeq(s, 1, Len(p)) = p

\* all strings over cs of length at most n
StringsUpTo(cs, n) == UNION {[1..k -> cs] : k \in 0..n}

LowerChar(c) ==
    CASE c = "A" -> "a"
      [] c = "B" -> "b"
      [] c = "C" -> "c"
      [] c = "E" -> "e"
      [] OTHER -> c

\* str.lower
Lower(s) == [i \in 1..Len(s) |-> LowerChar(s[i])]

\* str.replace(old, new) for single characters
Replace(s, old, new) == [i \in 1..Len(s) |-> IF s[i] = old THEN new ELSE s[i]]

----------------------------------------------------------------------------
(* Executor._validate_filename *)

\* the character U+0060 is written "BACKTICK": the lexer does not take it in a string
Suspicious == {"|", "&", ";", "BACKTICK", "$", "(", ")"}

\* a validator that lets every character through
HasSuspiciousNone(filename) == FALSE

HasSuspicious(filename) == \E i \in 1..Len(filename) : filename[i] \in Suspicious

\* a validator that forgets the leading root separator
HasTraversalNoRoot(filename) == IsSubstr(<<".", ".">>, filename)

HasTraversal(filename) ==
    IsSubstr(<<".", ".">>, filename) \/ StartsWith(filename, <<"/">>)

_validate_filename(filename) ==
    IF filename = Empty THEN FALSE
    ELSE IF HasTraversal(filename) THEN FALSE
    ELSE IF HasSuspicious(filename) THEN FALSE
    ELSE TRUE

----------------------------------------------------------------------------
(* Executor._load_app_paths *)

\* A registry file is a record: kind says whether config/apps.json exists and
\* parses, apps is the list under the key apps.  An entry is a record with
\* some of the fields name and path.
WellFormedEntry(app) == DOMAIN app = {"name", "path"}

\* app_paths is a sequence of <<key, path>> pairs with distinct keys
Keys(d) == {d[i][1] : i \in 1..Len(d)}

Lookup(d, k) == (CHOOSE i \in 1..Len(d) : d[i][1] = k)

\* app_paths[k]
PathOf(d, k) == d[Lookup(d, k)][2]

RECURSIVE DictOf(_)
\* the dict comprehension {app[name].lower(): app[path] for app in apps}:
\* a later entry with the same key replaces the value of the earlier one
DictOf(apps) ==
    IF apps = <<>> THEN <<>>
    ELSE LET n == Len(apps)
             front == DictOf(SubSeq(apps, 1, n - 1))
             key == Lower(apps[n].name)
         IN  IF key \in Keys(front)
             THEN [front EXCEPT ![Lookup(front, key)] = <<key, apps[n].path>>]
             ELSE Append(front, <<key, apps[n].path>>)

RECURSIVE DictOfRaw(_)
\* a comprehension that keeps the declared names as keys
DictOfRaw(apps) ==
    IF apps = <<>> THEN <<>>
    ELSE LET n == Len(apps)
             front == DictOfRaw(SubSeq(apps, 1, n - 1))
             key == apps[n].name
         IN  IF key \in Keys(front)
             THEN [front EXCEPT ![Lookup(front, key)] = <<key, apps[n].path>>]
             ELSE Append(front, <<key, apps[n].path>>)

\* a loader that does not lowercase the names
LoadAppPathsRaw(reg) ==
    IF reg.kind # "ok" THEN <<>>
    ELSE IF \E i \in 1..Len(reg.apps) : ~WellFormedEntry(reg.apps[i]) THEN <<>>
    ELSE DictOfRaw(reg.apps)

\* The exception the body of the try block raises, "none" when it runs to its
\* return: open() on a file that cannot be read, json.load on text that is
\* not JSON, data.get on a top level that is not an object, app[name] or
\* app[path] on an entry without that key.
LoadException(reg) ==
    IF reg.kind = "missing" THEN "none"
    ELSE IF reg.kind = "unreadable" THEN "OSError"
    ELSE IF reg.kind = "invalid_json" THEN "JSONDecodeError"
    ELSE IF reg.kind = "not_object" THEN "AttributeError"
    ELSE IF \E i \in 1..Len(reg.apps) : ~WellFormedEntry(reg.apps[i]) THEN "KeyError"
    ELSE "none"

\* the classes derived from Exception
ExceptionClasses == {"OSError", "JSONDecodeError", "AttributeError", "KeyError"}

\* a handler that expects a missing key only
CaughtKeyErrorOnly(exc) == exc = "KeyError"

\* except Exception as e
Caught(exc) == exc \in ExceptionClasses

_load_app_paths(reg) ==
    IF reg.kind = "missing" THEN <<>>
    ELSE IF reg.kind # "ok" THEN <<>>
    ELSE IF \E i \in 1..Len(reg.apps) : ~WellFormedEntry(reg.apps[i]) THEN <<>>
    ELSE DictOf(reg.apps)

----------------------------------------------------------------------------
(* The run of one execute call *)

\* One thing the call did to the outside world.  op is "speak", "run", "spawn",
\* "open_url", "touch", "unlink", "terminate", "set_volume", "change_volume" or
\* "mute"; text is the literal part (message template, program), arg the
\* string formatted into it, num a number, flag the blocking argument of speak
\* or the zero exit status of run.
Ev(op, text, arg, num, flag) ==
    [op |-> op, text |-> text, arg |-> arg, num |-> num, flag |-> flag]

\* The Executor of main() is built with a TTS instance, so "if self.tts" holds.
TtsPresent == TRUE

\* The state a call starts in: the world, the behaviour of the collaborators
\* (e.k leading speak calls raise; e.os is "ok", "nonzero" when a subprocess
\* exits with a non-zero status, "raise" when a platform call raises; e.denied
\* are the processes whose terminate() raises AccessDenied; e.absent says the
\* host has no battery and no network interface), no exception in flight and
\* no value returned.
Start(e) ==
    [files |-> files, volume |-> volume, trace |-> <<>>, n |-> 0,
     k |-> e.k, os |-> e.os, denied |-> e.denied, absent |-> e.absent,
     exc |-> FALSE, ret |-> "none",
     app_paths |-> app_paths, platform |-> platform]

\* control has left the code being run: a return or an exception in flight
Done(s) == s.exc \/ s.ret # "none"

Raise(s) == IF Done(s) THEN s ELSE [s EXCEPT !.exc = TRUE]

Return(s, v) == IF Done(s) THEN s ELSE [s EXCEPT !.ret = v]

Emit(s, e) == [s EXCEPT !.trace = Append(@, e)]

\* if self.tts: self.tts.speak(message, blocking), the message being text
\* with the string arg and the number num formatted into it
SpeakEv(s, text, arg, num, blocking) ==
    IF Done(s) \/ ~TtsPresent THEN s
    ELSE IF s.n < s.k THEN [s EXCEPT !.n = @ + 1, !.exc = TRUE]
    ELSE Emit([s EXCEPT !.n = @ + 1], Ev("speak", text, arg, num, blocking))

\* a speak that drops the blocking argument
SpeakNeverBlocking(s, text, arg, blocking) == SpeakEv(s, text, arg, 0, FALSE)

SpeakB(s, text, arg, blocking) == SpeakEv(s, text, arg, 0, blocking)

Speak(s, text, arg) == SpeakEv(s, text, arg, 0, FALSE)

\* subprocess.run(..., check=False)
Run(s, program) ==
    IF Done(s) THEN s
    ELSE IF s.os = "raise" THEN Raise(s)
    ELSE Emit(s, Ev("run", program, Empty, 0, s.os = "ok"))

\* subprocess.Popen
Popen(s, program, arg) ==
    IF Done(s) THEN s
    ELSE IF s.os = "raise" THEN Raise(s)
    ELSE Emit(s, Ev("spawn", program, arg, 0, FALSE))

\* try: body  except Exception: handler
Try(s, body(_), handler(_)) ==
    IF Done(s) THEN s
    ELSE LET b == body(s)
         IN  IF b.exc THEN handler([b EXCEPT !.exc = FALSE]) ELSE b

\* dict.get(key, default): a dict is a record whose field keys holds the keys
\* that are present
Get(params, key, default) == IF key \in params.keys THEN params[key] ELSE default

----------------------------------------------------------------------------
(* Executor._execute_system *)

PowerCommand(intent) ==
    CASE intent = "shutdown" ->
           (CASE platform = "Windows" -> "shutdown /s /t 1"
              [] platform = "Darwin" -> "osascript shut down"
              [] OTHER -> "systemctl poweroff")
      [] intent = "restart" ->
           (CASE platform = "Windows" -> "shutdown /r /t 1"
              [] platform = "Darwin" -> "osascript restart"
              [] OTHER -> "systemctl reboot")
      [] intent = "sleep" ->
           (CASE platform = "Windows" -> "rundll32.exe powrprof.dll,SetSuspendState"
              [] platform = "Darwin" -> "pmset sleepnow"
              [] OTHER -> "systemctl suspend")
      [] OTHER ->
           (CASE platform = "Windows" -> "rundll32.exe user32.dll,LockWorkStation"
              [] platform = "Darwin" -> "CGSession -suspend"
              [] OTHER -> "gnome-screensaver-command -l")

\* the Linux branch of lock: the first command that does not raise ends the
\* loop, a command that raises is skipped
LockLinux(s) ==
    IF s.os = "raise" THEN s ELSE Run(s, PowerCommand("lock"))

_execute_system(s, intent, params) ==
    IF intent = "shutdown" THEN
        Try(SpeakB(s, "Shutting down system", Empty, TRUE),
            LAMBDA t : Return(Run(t, PowerCommand(intent)), "true"),
            LAMBDA t : Return(Speak(t, "Shutdown failed. May require administrator privileges", Empty), "false"))
    ELSE IF intent = "restart" THEN
        Try(SpeakB(s, "Restarting system", Empty, TRUE),
            LAMBDA t : Return(Run(t, PowerCommand(intent)), "true"),
            LAMBDA t : Return(Speak(t, "Restart failed", Empty), "false"))
    ELSE IF intent = "sleep" THEN
        Try(Speak(s, "Putting system to sleep", Empty),
            LAMBDA t : Return(Run(t, PowerCommand(intent)), "true"),
            LAMBDA t : Return(Speak(t, "Sleep failed", Empty), "false"))
    ELSE IF intent = "lock" THEN
        Try(Speak(s, "Locking screen", Empty),
            LAMBDA t : Return(IF platform \in {"Windows", "Darwin"}
                              THEN Run(t, PowerCommand(intent))
                              ELSE LockLinux(t), "true"),
            LAMBDA t : Return(Speak(t, "Lock failed", Empty), "false"))
    ELSE Return(s, "false")

----------------------------------------------------------------------------
(* Executor._execute_application *)

CHROME == <<"c", "h", "r", "o", "m", "e">>
FIREFOX == <<"f", "i", "r", "e", "f", "o", "x">>
EDGE == <<"e", "d", "g", "e">>
NOTEPAD == <<"n", "o", "t", "e", "p", "a", "d">>
CALCULATOR == <<"c", "a", "l", "c", "u", "l", "a", "t", "o", "r">>
TERMINAL == <<"t", "e", "r", "m", "i", "n", "a", "l">>

\* the keys of common_apps, in the order of the dict literal
CommonKeys == <<CHROME, FIREFOX, EDGE, NOTEPAD, CALCULATOR, TERMINAL>>

\* apps['win'], apps['mac'], apps['linux'] of the i-th entry of common_apps
CommonProgram(i) ==
    CASE platform = "Windows" ->
           <<"chrome", "firefox", "msedge", "notepad", "calc", "cmd">>[i]
      [] platform = "Darwin" ->
           <<"open -a Google Chrome", "open -a Firefox", "open -a Microsoft Edge",
             "open -a TextEdit", "open -a Calculator", "open -a Terminal">>[i]
      [] OTHER ->
           <<"google-chrome", "firefox", "microsoft-edge", "gedit",
             "gnome-calculator", "gnome-terminal">>[i]

\* a launch that drops the registry once it has used it
LaunchPathOnce(s, app_path) ==
    IF Done(s) THEN s
    ELSE [Popen(s, "", app_path) EXCEPT !.app_paths = <<>>]

\* the launch of a registry path: [app_path], or open -a app_path on macOS
LaunchPath(s, app_path) ==
    IF platform = "Darwin" THEN Popen(s, "open -a", app_path)
    ELSE Popen(s, "", app_path)

RECURSIVE CommonLoopContained(_, _, _)
\* a loop that matches only an app_name contained in the key
CommonLoopContained(s, app_name, i) ==
    IF Done(s) \/ i > Len(CommonKeys) THEN s
    ELSE IF IsSubstr(app_name, CommonKeys[i])
    THEN CommonLoopContained(
            Try(s,
                LAMBDA t : Return(Speak(Popen(t, CommonProgram(i), Empty),
                                        "Opening", app_name), "true"),
                LAMBDA t : t),
            app_name, i + 1)
    ELSE CommonLoopContained(s, app_name, i + 1)

RECURSIVE CommonLoop(_, _, _)
\* for key, apps in common_apps.items(): from the i-th entry on; an exception
\* of an entry is logged and the loop goes on
CommonLoop(s, app_name, i) ==
    IF Done(s) \/ i > Len(CommonKeys) THEN s
    ELSE IF IsSubstr(app_name, CommonKeys[i]) \/ IsSubstr(CommonKeys[i], app_name)
    THEN CommonLoop(
            Try(s,
                LAMBDA t : Return(Speak(Popen(t, CommonProgram(i), Empty),
                                        "Opening", app_name), "true"),
                LAMBDA t : t),
            app_name, i + 1)
    ELSE CommonLoop(s, app_name, i + 1)

P1 == <<"A", "b">>
P2 == <<"b", "c">>

\* the processes of psutil.process_iter, in the order they are iterated
ProcOrder == <<P1, P2>>

RECURSIVE CloseLoopAll(_, _, _)
\* a loop that terminates every live process, whatever its name
CloseLoopAll(s, app_name, i) ==
    IF i > Len(ProcOrder) THEN s
    ELSE LET p == ProcOrder[i]
         IN  IF p \in procs /\ p \notin s.denied
             THEN CloseLoopAll(Emit([s EXCEPT !.ret = "killed"],
                                    Ev("terminate", "", p, 0, FALSE)),
                               app_name, i + 1)
             ELSE CloseLoopAll(s, app_name, i + 1)

RECURSIVE CloseLoop(_, _, _)
\* for proc in psutil.process_iter(['name']): from the i-th process on;
\* s.ret carries the local variable killed ("none" is False)
CloseLoop(s, app_name, i) ==
    IF i > Len(ProcOrder) THEN s
    ELSE LET p == ProcOrder[i]
         IN  IF p \in procs /\ IsSubstr(app_name, Lower(p)) /\ p \notin s.denied
             THEN CloseLoop(Emit([s EXCEPT !.ret = "killed"],
                                 Ev("terminate", "", p, 0, FALSE)),
                            app_name, i + 1)
             ELSE CloseLoop(s, app_name, i + 1)

_execute_application(s, intent, params) ==
    LET app_name == Lower(Get(params, "app_name", Empty))
    IN  IF intent = "open" THEN
            IF app_name = Empty
            THEN Return(Speak(s, "Please specify application name", Empty), "false")
            ELSE LET s1 == IF app_name \in Keys(app_paths)
                           THEN Try(s,
                                    LAMBDA t : Return(Speak(LaunchPath(t, PathOf(app_paths, app_name)),
                                                            "Opening", app_name), "true"),
                                    LAMBDA t : t)
                           ELSE s
                     s2 == CommonLoop(s1, app_name, 1)
                 IN  Return(Speak(s2, "Could not find", app_name), "false")
        ELSE IF intent = "close" THEN
            IF app_name = Empty
            THEN Return(Speak(s, "Please specify application name", Empty), "false")
            ELSE LET s1 == CloseLoop(s, app_name, 1)
                     s2 == [s1 EXCEPT !.ret = "none"]
                 IN  IF s1.ret = "killed"
                     THEN Return(Speak(s2, "Closed", app_name), "true")
                     ELSE Return(Speak(s2, "is not running", app_name), "false")
        ELSE Return(s, "false")

----------------------------------------------------------------------------
(* Executor._execute_file *)

RECURSIVE PathNorm(_)
\* Path(filename): leading "./" components name the same file
PathNorm(filename) ==
    IF StartsWith(filename, <<".", "/">>) /\ Len(filename) > 2
    THEN PathNorm(SubSeq(filename, 3, Len(filename)))
    ELSE filename

\* an existence test that always succeeds
ExistsAlways(s, filename) == TRUE

\* file_path.exists()
Exists(s, filename) == PathNorm(filename) \in s.files

\* a touch that reports the file without creating it
TouchNothing(s, filename) ==
    IF Done(s) THEN s
    ELSE IF s.os = "raise" THEN Raise(s)
    ELSE Emit(s, Ev("touch", "", PathNorm(filename), 0, FALSE))

\* file_path.touch()
Touch(s, filename) ==
    IF Done(s) THEN s
    ELSE IF s.os = "raise" THEN Raise(s)
    ELSE Emit([s EXCEPT !.files = @ \cup {PathNorm(filename)}],
              Ev("touch", "", PathNorm(filename), 0, FALSE))

\* file_path.unlink()
Unlink(s, filename) ==
    IF Done(s) THEN s
    ELSE IF s.os = "raise" THEN Raise(s)
    ELSE Emit([s EXCEPT !.files = @ \ {PathNorm(filename)}],
              Ev("unlink", "", PathNorm(filename), 0, FALSE))

\* the platform's default-handler launch of a file
OpenProgram ==
    CASE platform = "Windows" -> "start"
      [] platform = "Darwin" -> "open"
      [] OTHER -> "xdg-open"

\* the number of regular files of the working directory
CountFiles(s) == Cardinality(s.files)

_execute_file(s, intent, params) ==
    LET filename == Get(params, "filename", Empty)
    IN  IF ~_validate_filename(filename)
        THEN Return(Speak(s, "Invalid filename", Empty), "false")
        ELSE IF intent = "open_file" THEN
            Try(s,
                LAMBDA t : IF ~Exists(t, filename)
                           THEN Return(Speak(t, "File not found", Empty), "false")
                           ELSE Return(Speak(Popen(t, OpenProgram, PathNorm(filename)),
                                             "Opening", filename), "true"),
                LAMBDA t : Return(Speak(t, "Could not open file", Empty), "false"))
        ELSE IF intent = "create_file" THEN
            Try(s,
                LAMBDA t : IF Exists(t, filename)
                           THEN Return(Speak(t, "File already exists", Empty), "false")
                           ELSE Return(Speak(Touch(t, filename), "Created", filename), "true"),
                LAMBDA t : Return(Speak(t, "Could not create file", Empty), "false"))
        ELSE IF intent = "delete_file" THEN
            Try(s,
                LAMBDA t : IF ~Exists(t, filename)
                           THEN Return(Speak(t, "File not found", Empty), "false")
                           ELSE Return(Speak(Unlink(t, filename), "Deleted", filename), "true"),
                LAMBDA t : Return(Speak(t, "Could not delete file", Empty), "false"))
        ELSE IF intent = "list_files" THEN
            Try(s,
                LAMBDA t : Return(SpeakEv(IF t.os = "raise" THEN Raise(t) ELSE t,
                                          "Found files", Empty, CountFiles(t), FALSE), "true"),
                LAMBDA t : Return(t, "false"))
        ELSE Return(s, "false")

----------------------------------------------------------------------------
(* Executor._execute_web *)

HTTP == <<"h", "t", "t", "p", ":", "/", "/">>
HTTPS == <<"h", "t", "t", "p", "s", ":", "/", "/">>
DOTCOM == <<".", "c", "o", "m">>
GOOGLE == <<"h", "t", "t", "p", "s", ":", "/", "/", "w", "w", "w", ".", "g", "o", "o", "g", "l", "e", ".", "c", "o", "m", "/", "s", "e", "a", "r", "c", "h", "?", "q", "=">>
YOUTUBE == <<"h", "t", "t", "p", "s", ":", "/", "/", "w", "w", "w", ".", "y", "o", "u", "t", "u", "b", "e", ".", "c", "o", "m", "/", "r", "e", "s", "u", "l", "t", "s", "?", "s", "e", "a", "r", "c", "h", "_", "q", "u", "e", "r", "y", "=">>

RECURSIVE LastSegment(_)
\* url.split('/')[-1]
LastSegment(url) ==
    IF url = Empty \/ url[Len(url)] = "/" THEN Empty
    ELSE Append(LastSegment(SubSeq(url, 1, Len(url) - 1)), url[Len(url)])

\* a normalisation that looks for the dot in the host instead of the final
\* path segment
NormalizeUrlByHost(url) ==
    LET u1 == IF StartsWith(url, HTTP) \/ StartsWith(url, HTTPS) THEN url ELSE HTTPS \o url
    IN  IF ~IsSubstr(<<".">>, u1) THEN u1 \o DOTCOM ELSE u1

\* the url open_website hands to the browser
NormalizeUrl(url) ==
    LET u1 == IF StartsWith(url, HTTP) \/ StartsWith(url, HTTPS) THEN url ELSE HTTPS \o url
    IN  IF ~IsSubstr(<<".">>, LastSegment(u1)) THEN u1 \o DOTCOM ELSE u1

\* the urls of search_google and search_youtube
\* a search url with the query left as it is
GoogleUrlRaw(query) == GOOGLE \o query

GoogleUrl(query) == GOOGLE \o Replace(query, " ", "+")

YoutubeUrl(query) == YOUTUBE \o Replace(query, " ", "+")

\* webbrowser.open(url)
WebOpen(s, url) ==
    IF Done(s) THEN s
    ELSE IF s.os = "raise" THEN Raise(s)
    ELSE Emit(s, Ev("open_url", "", url, 0, FALSE))

_execute_web(s, intent, params) ==
    IF intent = "open_website" THEN
        LET url == Get(params, "url", Empty)
        IN  IF url = Empty
            THEN Return(Speak(s, "Please specify website", Empty), "false")
            ELSE Try(s,
                     LAMBDA t : Return(Speak(WebOpen(t, NormalizeUrl(url)),
                                             "Opening", NormalizeUrl(url)), "true"),
                     LAMBDA t : Return(Speak(t, "Could not open website", Empty), "false"))
    ELSE IF intent = "search_google" THEN
        LET query == Get(params, "query", Empty)
        IN  IF query = Empty
            THEN Return(Speak(s, "Please specify search query", Empty), "false")
            ELSE Try(s,
                     LAMBDA t : Return(Speak(WebOpen(t, GoogleUrl(query)),
                                             "Searching for", query), "true"),
                     LAMBDA t : Return(t, "false"))
    ELSE IF intent = "search_youtube" THEN
        LET query == Get(params, "query", Empty)
        IN  IF query = Empty
            THEN Return(Speak(s, "Please specify search query", Empty), "false")
            ELSE Try(s,
                     LAMBDA t : Return(Speak(WebOpen(t, YoutubeUrl(query)),
                                             "Searching YouTube for", query), "true"),
                     LAMBDA t : Return(t, "false"))
    ELSE Return(s, "false")

----------------------------------------------------------------------------
(* Executor._execute_system_info *)

\* a psutil query
Sense(s) == IF s.os = "raise" THEN Raise(s) ELSE s

_execute_system_info(s, intent, params) ==
    IF intent = "system_info" THEN Return(Speak(s, "System:", Empty), "true")
    ELSE IF intent = "battery" THEN
        Try(s,
            LAMBDA t : IF Sense(t).absent
                       THEN Return(Speak(Sense(t), "No battery detected", Empty), "false")
                       ELSE Return(Speak(Sense(t), "Battery at", Empty), "true"),
            LAMBDA t : Return(t, "false"))
    ELSE IF intent = "disk_space" THEN
        Try(s,
            LAMBDA t : Return(Speak(Sense(t), "Disk is percent full", Empty), "true"),
            LAMBDA t : Return(t, "false"))
    ELSE IF intent = "memory" THEN
        Try(s,
            LAMBDA t : Return(Speak(Sense(t), "Memory is percent used", Empty), "true"),
            LAMBDA t : Return(t, "false"))
    ELSE IF intent = "cpu" THEN
        Try(s,
            LAMBDA t : Return(Speak(Sense(t), "CPU usage is percent", Empty), "true"),
            LAMBDA t : Return(t, "false"))
    ELSE IF intent = "network" THEN
        Try(s,
            LAMBDA t : IF Sense(t).absent
                       THEN Return(Speak(Sense(t), "No network connection", Empty), "false")
                       ELSE Return(Speak(Sense(t), "Network is connected", Empty), "true"),
            LAMBDA t : Return(t, "false"))
    ELSE Return(s, "false")

----------------------------------------------------------------------------
(* Executor._execute_volume *)

Min(a, b) == IF a < b THEN a ELSE b

Max(a, b) == IF a > b THEN a ELSE b

\* what the host does with a requested level: it keeps the volume in 0..100
HostLevel(n) == Max(0, Min(100, n))

\* intent.replace('_', ' ')
IntentWords(intent) ==
    CASE intent = "volume_up" -> <<"v", "o", "l", "u", "m", "e", " ", "u", "p">>
      [] intent = "volume_down" -> <<"v", "o", "l", "u", "m", "e", " ", "d", "o", "w", "n">>
      [] intent = "mute" -> <<"m", "u", "t", "e">>
      [] OTHER -> <<"b", "o", "g", "u", "s">>

\* new_vol of the macOS branch
NewVolUp(current_vol, amount) == Min(100, current_vol + amount)

NewVolDown(current_vol, amount) == Max(0, current_vol - amount)

\* subprocess.run(['nircmd', 'changesysvolume', str(delta)], check=False)
ChangeSysVolume(s, delta, amount) ==
    IF Done(s) THEN s
    ELSE IF s.os = "raise" THEN Raise(s)
    ELSE Emit([s EXCEPT !.volume = IF s.os = "ok" THEN HostLevel(@ + amount) ELSE @],
              Ev("change_volume", "nircmd changesysvolume", Empty, delta, s.os = "ok"))

\* subprocess.run(['osascript', '-e', 'set volume output volume N'], check=False)
SetVolume(s, new_vol) ==
    IF Done(s) THEN s
    ELSE IF s.os = "raise" THEN Raise(s)
    ELSE Emit([s EXCEPT !.volume = IF s.os = "ok" THEN HostLevel(new_vol) ELSE @],
              Ev("set_volume", "osascript set volume output volume", Empty, new_vol, s.os = "ok"))

\* the mute command of the platform
Mute(s, program) ==
    IF Done(s) THEN s
    ELSE IF s.os = "raise" THEN Raise(s)
    ELSE Emit(s, Ev("mute", program, Empty, 0, s.os = "ok"))

\* the Windows branch
VolumeWindows(s, intent, amount) ==
    IF intent = "volume_up" THEN ChangeSysVolume(s, amount * 655, amount)
    ELSE IF intent = "volume_down" THEN ChangeSysVolume(s, (-amount) * 655, -amount)
    ELSE IF intent = "mute" THEN Mute(s, "nircmd mutesysvolume 1")
    ELSE s

\* the macOS branch: the query runs with check=True, so a non-zero exit is a
\* CalledProcessError, which returns False; any other exception goes on to
\* the handler of _execute_volume
VolumeDarwin(s, intent, amount) ==
    IF s.os = "raise" THEN Raise(s)
    ELSE IF s.os = "nonzero" THEN Return(s, "false")
    ELSE LET q == Emit(s, Ev("run", "osascript output volume of (get volume settings)",
                             Empty, 0, TRUE))
             current_vol == q.volume
         IN  IF intent = "volume_up" THEN SetVolume(q, NewVolUp(current_vol, amount))
             ELSE IF intent = "volume_down" THEN SetVolume(q, NewVolDown(current_vol, amount))
             ELSE IF intent = "mute" THEN Mute(q, "osascript set volume output muted true")
             ELSE q

_execute_volume(s, intent, params) ==
    LET amount == Get(params, "amount", 10)
    IN  Try(s,
            LAMBDA t : LET t1 == IF platform = "Windows" THEN VolumeWindows(t, intent, amount)
                                 ELSE IF platform = "Darwin" THEN VolumeDarwin(t, intent, amount)
                                 ELSE t
                       IN  Return(Speak(t1, "Volume", IntentWords(intent)), "true"),
            LAMBDA t : Return(Speak(t, "Volume control not available", Empty), "false"))

----------------------------------------------------------------------------
(* Executor._execute_control *)

_execute_control(s, intent, params) ==
    IF intent = "stop_listening" THEN Return(Speak(s, "Stopping", Empty), "true")
    ELSE IF intent = "wake_up" THEN Return(Speak(s, "I'm listening", Empty), "true")
    ELSE Return(s, "false")

----------------------------------------------------------------------------
(* Executor.execute *)

\* the routing of execute, inside its try block
Route(s, command) ==
    LET category == Get(command, "category", "None")
        intent == Get(command, "intent", "None")
        params == Get(command, "parameters", [keys |-> {}])
    IN  IF category = "system" THEN _execute_system(s, intent, params)
        ELSE IF category = "application" THEN _execute_application(s, intent, params)
        ELSE IF category = "file" THEN _execute_file(s, intent, params)
        ELSE IF category = "web" THEN _execute_web(s, intent, params)
        ELSE IF category = "system_info" THEN _execute_system_info(s, intent, params)
        ELSE IF category = "volume" THEN _execute_volume(s, intent, params)
        ELSE IF category = "control" THEN _execute_control(s, intent, params)
        ELSE Return(Speak(s, "Unknown command category", Empty), "false")

\* the run of execute(command) when the collaborators behave as e says
execute(command, e) ==
    IF command.keys = {} THEN Return(Start(e), "false")
    ELSE Try(Start(e),
             LAMBDA t : Route(t, command),
             LAMBDA t : Return(Speak(t, "Command execution failed", Empty), "false"))

\* what the caller gets: the value returned, or "raised" when an exception
\* leaves execute
Outcome(s) == IF s.exc THEN "raised" ELSE s.ret

----------------------------------------------------------------------------
(* Commands, collaborators and the initial state *)

Platforms == {"Windows", "Darwin", "Linux"}

NoParams ==
    [keys |-> {}, filename |-> Empty, app_name |-> Empty, url |-> Empty,
     query |-> Empty, amount |-> 0]

Command(category, intent, params) ==
    [keys |-> {"category", "intent", "parameters"},
     category |-> category, intent |-> intent, parameters |-> params]

\* the empty dict
EmptyCommand == [keys |-> {}, category |-> "", intent |-> "", parameters |-> NoParams]

WithFilename(f) == [NoParams EXCEPT !.keys = {"filename"}, !.filename = f]
WithAppName(a) == [NoParams EXCEPT !.keys = {"app_name"}, !.app_name = a]
WithUrl(u) == [NoParams EXCEPT !.keys = {"url"}, !.url = u]
WithQuery(q) == [NoParams EXCEPT !.keys = {"query"}, !.query = q]
WithAmount(a) == [NoParams EXCEPT !.keys = {"amount"}, !.amount = a]

\* an intent outside every category's set
UnknownIntents == {"bogus"}

FileNames == {<<"a">>, <<"b">>}

FilenameParams ==
    FileNames \cup {Empty, <<".", "/", "a">>, <<".", ".">>, <<"/", "a">>, <<"a", "$">>}

AppNameParams == {Empty, <<"A", "B">>, <<"b">>, <<"z">>, <<"e">>, EDGE, EDGE \o <<"s">>}

UrlParams ==
    {Empty, <<"a">>, <<"a", ".", "b">>, HTTPS \o <<"a", ".", "b", "/">>,
     HTTP \o <<"a", ".", "b", "/", "c">>}

QueryParams == {Empty, <<"a">>, <<"a", " ", "b">>, <<" ", "a", " ", " ", "+">>}

Amounts == {-500, 50, 500}

SystemCommands ==
    {Command("system", i, NoParams) :
        i \in {"shutdown", "restart", "sleep", "lock"} \cup UnknownIntents}

ApplicationCommands ==
    {Command("application", i, p) :
        i \in {"open", "close"} \cup UnknownIntents,
        p \in {NoParams} \cup {WithAppName(a) : a \in AppNameParams}}

FileCommands ==
    {Command("file", i, p) :
        i \in {"open_file", "create_file", "delete_file", "list_files"} \cup UnknownIntents,
        p \in {NoParams} \cup {WithFilename(f) : f \in FilenameParams}}

WebCommands ==
    {Command("web", "open_website", p) : p \in {NoParams} \cup {WithUrl(u) : u \in UrlParams}}
    \cup {Command("web", i, p) :
            i \in {"search_google", "search_youtube"},
            p \in {NoParams} \cup {WithQuery(q) : q \in QueryParams}}
    \cup {Command("web", i, NoParams) : i \in UnknownIntents}

SystemInfoCommands ==
    {Command("system_info", i, NoParams) :
        i \in {"system_info", "battery", "disk_space", "memory", "cpu", "network"}
              \cup UnknownIntents}

VolumeCommands ==
    {Command("volume", i, WithAmount(a)) :
        i \in {"volume_up", "volume_down", "mute"} \cup UnknownIntents, a \in Amounts}
    \cup {Command("volume", i, NoParams) : i \in {"mute"} \cup UnknownIntents}

ControlCommands ==
    {Command("control", i, NoParams) : i \in {"stop_listening", "wake_up"} \cup UnknownIntents}

UnknownCategoryCommands == {Command("bogus", "open", NoParams)}

Commands ==
    {EmptyCommand} \cup SystemCommands \cup ApplicationCommands \cup FileCommands
    \cup WebCommands \cup SystemInfoCommands \cup VolumeCommands \cup ControlCommands
    \cup UnknownCategoryCommands

\* collaborators that all work
Healthy == [k |-> 0, os |-> "ok", denied |-> {}, absent |-> FALSE]

\* The behaviours of the collaborators that command c can meet.  A dimension
\* the handler of c never looks at stays at its healthy value.
EnvsFor(c) ==
    {[k |-> k, os |-> o, denied |-> d, absent |-> a] :
        k \in 0..MaxSpeakFail,
        o \in IF c.category \in {"system", "volume"}
              THEN {"ok", "nonzero", "raise"} ELSE {"ok", "raise"},
        d \in IF c.category = "application" /\ c.intent = "close"
              THEN SUBSET procs ELSE {{}},
        a \in IF c.category = "system_info" /\ c.intent \in {"battery", "network"}
              THEN BOOLEAN ELSE {FALSE}}

\* registry files of the main specification
Registries ==
    {[kind |-> "missing", apps |-> <<>>],
     [kind |-> "ok", apps |-> <<[name |-> <<"A", "b">>, path |-> <<"x">>],
                                [name |-> <<"E">>, path |-> <<"y">>]>>]}

\* output volumes the host can start with
InitVolumes == {0, 50, 100}

World == [files |-> files, procs |-> procs, volume |-> volume]

\* the state after Executor(tts, auth) is built
Init ==
    /\ platform \in Platforms
    /\ registry \in Registries
    /\ app_paths = _load_app_paths(registry)
    /\ files \in SUBSET FileNames
    /\ procs \in SUBSET {P1, P2}
    /\ volume \in InitVolumes
    /\ cmd = EmptyCommand
    /\ env = Healthy
    /\ before = [files |-> files, procs |-> procs, volume |-> volume]
    /\ result = "none"
    /\ trace = <<>>
    /\ UIInit

\* one call of Executor.execute, from a caller that is not in a call
Execute ==
    /\ result = "none"
    /\ \E c \in Commands : \E e \in EnvsFor(c) :
        LET s == execute(c, e)
        IN  /\ cmd' = c
            /\ env' = e
            /\ before' = World
            /\ result' = Outcome(s)
            /\ trace' = s.trace
            /\ files' = s.files
            /\ volume' = s.volume
            /\ app_paths' = s.app_paths
            /\ platform' = s.platform
            /\ UNCHANGED <<registry, procs>>
    /\ UNCHANGED uivars

\* the caller has reported the outcome of the call and is ready for the next
Report ==
    /\ result # "none"
    /\ cmd' = EmptyCommand
    /\ env' = Healthy
    /\ before' = World
    /\ result' = "none"
    /\ trace' = <<>>
    /\ UNCHANGED <<platform, registry, app_paths, files, procs, volume>>
    /\ UNCHANGED uivars

\* a process of the host starts
ProcStart ==
    /\ result = "none"
    /\ \E p \in {P1, P2} \ procs :
        /\ procs' = procs \cup {p}
        /\ before' = [before EXCEPT !.procs = procs \cup {p}]
        /\ UNCHANGED <<platform, registry, app_paths, files, volume, cmd, env, result, trace>>
    /\ UNCHANGED uivars

\* a process of the host exits
ProcExit ==
    /\ result = "none"
    /\ \E p \in procs :
        /\ procs' = procs \ {p}
        /\ before' = [before EXCEPT !.procs = procs \ {p}]
        /\ UNCHANGED <<platform, registry, app_paths, files, volume, cmd, env, result, trace>>
    /\ UNCHANGED uivars

Next == Execute \/ Report \/ ProcStart \/ ProcExit

Spec == Init /\ [][Next]_vars

----------------------------------------------------------------------------
(* The validator on its own: every filename up to MaxLen characters *)

FilenameChars == {"a", ".", "/"} \cup Suspicious

\* the filename parameter of the last command
Filename == Get(cmd.parameters, "filename", Empty)

InitValidate ==
    /\ platform = "Linux"
    /\ registry = [kind |-> "missing", apps |-> <<>>]
    /\ app_paths = <<>>
    /\ files = {}
    /\ procs = {}
    /\ volume = 50
    /\ cmd \in {Command("file", "open_file", WithFilename(f)) :
                    f \in StringsUpTo(FilenameChars, MaxLen)}
    /\ env = Healthy
    /\ before = World
    /\ result = "none"
    /\ trace = <<>>
    /\ UIInit

\* self._validate_filename(filename), as _execute_file calls it
Validate ==
    /\ result = "none"
    /\ result' = IF _validate_filename(Filename) THEN "valid" ELSE "invalid"
    /\ UNCHANGED <<platform, registry, app_paths, files, procs, volume, cmd, env, before, trace>>
    /\ UNCHANGED uivars

NextValidate == Validate

SpecValidate == InitValidate /\ [][NextValidate]_vars

----------------------------------------------------------------------------
(* The construction of the Executor: every well-formed registry file of at
   most MaxApps entries *)

RegNames == {<<"a">>, <<"A">>, <<"b">>, <<"A", "b">>}

RegPaths == {<<"x">>, <<"y">>}

RegEntries == {[name |-> n, path |-> q] : n \in RegNames, q \in RegPaths}

WellFormedRegistries ==
    {[kind |-> "ok", apps |-> a] : a \in UNION {[1..k -> RegEntries] : k \in 0..MaxApps}}

NotFound == <<"NOT FOUND">>

\* the lookup of _execute_application: app_name.lower() in self.app_paths,
\* then self.app_paths[app_name]
LookupByName(d, name) ==
    LET app_name == Lower(name)
    IN  IF app_name \in Keys(d) THEN PathOf(d, app_name) ELSE NotFound

InitLoad ==
    /\ platform = "Linux"
    /\ registry \in WellFormedRegistries
    /\ app_paths = <<>>
    /\ files = {}
    /\ procs = {}
    /\ volume = 50
    /\ cmd = EmptyCommand
    /\ env = Healthy
    /\ before = World
    /\ result = "none"
    /\ trace = <<>>
    /\ UIInit

\* Executor.__init__: self.app_paths = self._load_app_paths().  An exception
\* of the try block that the handler does not catch leaves the constructor.
Construct ==
    /\ result = "none"
    /\ IF LoadException(registry) # "none" /\ ~Caught(LoadException(registry))
       THEN /\ app_paths' = app_paths
            /\ result' = "raised"
       ELSE /\ app_paths' = _load_app_paths(registry)
            /\ result' = "built"
    /\ UNCHANGED <<platform, registry, files, procs, volume, cmd, env, before, trace>>
    /\ UNCHANGED uivars

NextLoad == Construct

SpecLoad == InitLoad /\ [][NextLoad]_vars

----------------------------------------------------------------------------
(* The construction of the Executor on any registry file: missing, unreadable,
   not JSON, not an object, or a list of at most MaxApps entries each of which
   may lack its name or its path *)

PartialEntries ==
    {[name |-> n] : n \in RegNames} \cup {[path |-> q] : q \in RegPaths}
    \cup {[icon |-> q] : q \in RegPaths}

AnyRegistries ==
    {[kind |-> k, apps |-> <<>>] :
        k \in {"missing", "unreadable", "invalid_json", "not_object"}}
    \cup {[kind |-> "ok", apps |-> a] :
            a \in UNION {[1..k -> RegEntries \cup PartialEntries] : k \in 0..MaxApps}}

InitLoadAny ==
    /\ platform = "Linux"
    /\ registry \in AnyRegistries
    /\ app_paths = <<>>
    /\ files = {}
    /\ procs = {}
    /\ volume = 50
    /\ cmd = EmptyCommand
    /\ env = Healthy
    /\ before = World
    /\ result = "none"
    /\ trace = <<>>
    /\ UIInit

SpecLoadAny == InitLoadAny /\ [][NextLoad]_vars

----------------------------------------------------------------------------
(* The main window (modules/ui_enhanced.py): authentication, the listening
   threads and the typed-command path, all on one Executor *)

MaxStarts == 2       \* most listening threads started in one run

\* the state of the Executor and of the host
corevars == <<platform, registry, app_paths, files, procs, volume, cmd, env, before, result, trace>>

\* what the speech collaborator returns: a transcript, or "" on silence
Utterances == {"stop listening", "create file a", "hello"}

\* command_parser.parse(text): a Command, or nothing when no pattern matches
parse(text) ==
    CASE text = "stop listening" -> Command("control", "stop_listening", NoParams)
      [] text = "create file a" -> Command("file", "create_file", WithFilename(<<"a">>))
      [] OTHER -> NoCommand

\* the collaborators of an execute call made from the window: all working, or
\* a speech output that raises on every call
UIEnvs == {Healthy, [Healthy EXCEPT !.k = MaxSpeakFail]}

\* a thread of listen() that is about to test the loop condition; stopped says
\* that _stop_listening or closeEvent ran since the thread was started, last
\* how its previous iteration ended ("none", "ok", "error")
NewThread ==
    [pc |-> "top", text |-> "", cmd |-> NoCommand, result |-> "none",
     stopped |-> FALSE, last |-> "none"]

\* the end of an iteration without exception
EndIteration(thread) ==
    [thread EXCEPT !.pc = "top", !.text = "", !.cmd = NoCommand, !.result = "none",
                   !.last = "ok"]

\* a handler that lets the exception end the thread
OnExceptionExit(thread) ==
    [thread EXCEPT !.pc = "done", !.text = "", !.cmd = NoCommand, !.result = "none",
                   !.last = "error"]

\* except Exception as e: the error is logged and the while loop goes on
OnException(thread) ==
    [thread EXCEPT !.pc = "top", !.text = "", !.cmd = NoCommand, !.result = "none",
                   !.last = "error"]

\* a UI event can be delivered: the window is open and the main thread is not
\* inside a slot
MainIdle == ~closed /\ typed.pc = "idle"

\* _register_user, the dialog confirmed with a username: both buttons are
\* disabled and the register thread starts
_register_user ==
    /\ MainIdle
    /\ register_btn
    /\ register_btn' = FALSE
    /\ login_btn' = FALSE
    /\ workers' = [workers EXCEPT !.register = @ + 1]
    /\ UNCHANGED <<is_listening, is_authenticated, start_btn, stop_btn, logout_btn,
                   threads, typed, closed, calls>>
    /\ UNCHANGED corevars

\* register(): whatever auth.register_user does, the finally block enables
\* both buttons again
register ==
    /\ workers.register > 0
    /\ workers' = [workers EXCEPT !.register = @ - 1]
    /\ register_btn' = TRUE
    /\ login_btn' = TRUE
    /\ UNCHANGED <<is_listening, is_authenticated, start_btn, stop_btn, logout_btn,
                   threads, typed, closed, calls>>
    /\ UNCHANGED corevars

\* a login that leaves the Register button as it is
AuthenticateKeepsRegister ==
    /\ MainIdle
    /\ login_btn
    /\ login_btn' = FALSE
    /\ workers' = [workers EXCEPT !.authenticate = @ + 1]
    /\ UNCHANGED <<is_listening, is_authenticated, start_btn, stop_btn, register_btn,
                   logout_btn, threads, typed, closed, calls>>
    /\ UNCHANGED corevars

\* _authenticate_user: both buttons are disabled and the authenticate thread
\* starts
_authenticate_user ==
    /\ MainIdle
    /\ login_btn
    /\ login_btn' = FALSE
    /\ register_btn' = FALSE
    /\ workers' = [workers EXCEPT !.authenticate = @ + 1]
    /\ UNCHANGED <<is_listening, is_authenticated, start_btn, stop_btn, logout_btn,
                   threads, typed, closed, calls>>
    /\ UNCHANGED corevars

\* authenticate(): auth.authenticate returns a username, returns nothing or
\* raises
authenticate ==
    /\ workers.authenticate > 0
    /\ workers' = [workers EXCEPT !.authenticate = @ - 1]
    /\ \E username \in {"user", "None", "raise"} :
        IF username = "user"
        THEN /\ is_authenticated' = TRUE
             /\ start_btn' = TRUE
             /\ logout_btn' = TRUE
             /\ login_btn' = FALSE
             /\ register_btn' = FALSE
        ELSE /\ login_btn' = TRUE
             /\ register_btn' = TRUE
             /\ UNCHANGED <<is_authenticated, start_btn, logout_btn>>
    /\ UNCHANGED <<is_listening, stop_btn, threads, typed, closed, calls>>
    /\ UNCHANGED corevars

_logout_user ==
    /\ MainIdle
    /\ logout_btn
    /\ is_authenticated' = FALSE
    /\ start_btn' = FALSE
    /\ logout_btn' = FALSE
    /\ login_btn' = TRUE
    /\ register_btn' = TRUE
    /\ UNCHANGED <<is_listening, stop_btn, threads, workers, typed, closed, calls>>
    /\ UNCHANGED corevars

\* every thread that has not finished learns that a stop was asked for
MarkStopped(ts) ==
    [i \in DOMAIN ts |-> IF ts[i].pc = "done" THEN ts[i] ELSE [ts[i] EXCEPT !.stopped = TRUE]]

\* _start_listening: refused without authentication; otherwise the flag is
\* set and a new thread runs listen()
_start_listening ==
    /\ MainIdle
    /\ start_btn
    /\ IF ~is_authenticated
       THEN UNCHANGED <<is_listening, start_btn, stop_btn, threads>>
       ELSE /\ Len(threads) < MaxStarts
            /\ is_listening' = TRUE
            /\ start_btn' = FALSE
            /\ stop_btn' = TRUE
            /\ threads' = Append(threads, NewThread)
    /\ UNCHANGED <<is_authenticated, login_btn, register_btn, logout_btn, workers,
                   typed, closed, calls>>
    /\ UNCHANGED corevars

_stop_listening ==
    /\ MainIdle
    /\ stop_btn
    /\ is_listening' = FALSE
    /\ start_btn' = TRUE
    /\ stop_btn' = FALSE
    /\ threads' = MarkStopped(threads)
    /\ UNCHANGED <<is_authenticated, login_btn, register_btn, logout_btn, workers,
                   typed, closed, calls>>
    /\ UNCHANGED corevars

closeEvent ==
    /\ MainIdle
    /\ is_listening' = FALSE
    /\ closed' = TRUE
    /\ threads' = MarkStopped(threads)
    /\ UNCHANGED <<is_authenticated, start_btn, stop_btn, login_btn, register_btn,
                   logout_btn, workers, typed, calls>>
    /\ UNCHANGED corevars

\* _execute_typed_command up to the call of execute: a text that does not
\* parse is logged and the slot ends (as it does on an exception of parse or
\* of command.action); a command is handed to the Executor
_execute_typed_command ==
    /\ MainIdle
    /\ \E text \in Utterances :
        typed' = IF parse(text) = NoCommand THEN Idle
                 ELSE [pc |-> "executing", cmd |-> parse(text)]
    /\ UNCHANGED <<is_listening, is_authenticated, start_btn, stop_btn, login_btn,
                   register_btn, logout_btn, threads, workers, closed, calls>>
    /\ UNCHANGED corevars

\* the rest of _execute_typed_command: execute returns its bool (or raises),
\* and result.success is an AttributeError that ends the slot
TypedReturn ==
    /\ typed.pc = "executing"
    /\ \E e \in UIEnvs :
        LET s == execute(typed.cmd, e)
        IN  /\ files' = s.files
            /\ volume' = s.volume
    /\ typed' = Idle
    /\ UNCHANGED <<platform, registry, app_paths, procs, cmd, env, before, result, trace>>
    /\ UNCHANGED <<is_listening, is_authenticated, start_btn, stop_btn, login_btn,
                   register_btn, logout_btn, threads, workers, closed, calls>>

\* thread i changes, the window does not
ThreadStep(i, thread) ==
    /\ threads' = [threads EXCEPT ![i] = thread]
    /\ UNCHANGED <<is_listening, is_authenticated, start_btn, stop_btn, login_btn,
                   register_btn, logout_btn, workers, typed, closed, calls>>

\* while self.is_listening:
LoopTest(i) ==
    /\ threads[i].pc = "top"
    /\ ThreadStep(i, IF is_listening THEN [threads[i] EXCEPT !.pc = "listen"]
                     ELSE [NewThread EXCEPT !.pc = "done"])
    /\ UNCHANGED corevars

\* text = self.stt_manager.listen(): a transcript, nothing, or an exception
Hear(i) ==
    /\ threads[i].pc = "listen"
    /\ \E text \in Utterances \cup {"", "raise"} :
        ThreadStep(i, IF text = "raise" THEN OnException(threads[i])
                      ELSE IF text = "" THEN EndIteration(threads[i])
                      ELSE [threads[i] EXCEPT !.pc = "heard", !.text = text, !.last = "none"])
    /\ UNCHANGED corevars

\* command = self.command_parser.parse(text): an exception (of parse, or of
\* the read of command.action for the log line), nothing, or a command that
\* is logged and handed to the Executor
Parse(i) ==
    /\ threads[i].pc = "heard"
    /\ \E raises \in BOOLEAN :
        ThreadStep(i, IF raises THEN OnException(threads[i])
                      ELSE IF parse(threads[i].text) = NoCommand THEN EndIteration(threads[i])
                      ELSE [threads[i] EXCEPT !.pc = "executing",
                                              !.cmd = parse(threads[i].text)])
    /\ UNCHANGED corevars

\* result = self.executor.execute(command) returns, or raises
Executed(i) ==
    /\ threads[i].pc = "executing"
    /\ \E e \in UIEnvs :
        LET s == execute(threads[i].cmd, e)
        IN  /\ files' = s.files
            /\ volume' = s.volume
            /\ ThreadStep(i, IF Outcome(s) = "raised" THEN OnException(threads[i])
                             ELSE [threads[i] EXCEPT !.pc = "handle", !.result = Outcome(s)])
    /\ UNCHANGED <<platform, registry, app_paths, procs, cmd, env, before, result, trace>>

\* if result.success: the result is a bool, the attribute read raises
Handle(i) ==
    /\ threads[i].pc = "handle"
    /\ ThreadStep(i, OnException(threads[i]))
    /\ UNCHANGED corevars

Listen == \E i \in DOMAIN threads : LoopTest(i) \/ Hear(i) \/ Parse(i) \/ Executed(i) \/ Handle(i)

InitUI ==
    /\ platform = "Linux"
    /\ registry = [kind |-> "missing", apps |-> <<>>]
    /\ app_paths = _load_app_paths(registry)
    /\ files = {}
    /\ procs = {}
    /\ volume = 50
    /\ cmd = EmptyCommand
    /\ env = Healthy
    /\ before = World
    /\ result = "none"
    /\ trace = <<>>
    /\ UIInit

NextUI ==
    \/ _register_user
    \/ register
    \/ _authenticate_user
    \/ authenticate
    \/ _logout_user
    \/ _start_listening
    \/ _stop_listening
    \/ closeEvent
    \/ _execute_typed_command
    \/ TypedReturn
    \/ Listen

SpecUI == InitUI /\ [][NextUI]_vars

----------------------------------------------------------------------------
(* Two execute calls at the same time: the listening thread and the
   typed-command path call file.create_file or file.delete_file on one
   Executor, and each call is cut where it reads or writes the directory *)

Callers == {"voice", "typed"}

RaceCommands ==
    {Command("file", i, WithFilename(f)) : i \in {"create_file", "delete_file"}, f \in FileNames}

\* file_path.unlink() on the directory as it is now: a file that is gone
\* raises FileNotFoundError
UnlinkNow(s, filename) == IF Exists(s, filename) THEN Unlink(s, filename) ELSE Raise(s)

\* create_file from the test file_path.exists() on, the test having given seen
CreateAfterTest(s, filename, seen) ==
    Try(s,
        LAMBDA t : IF seen
                   THEN Return(Speak(t, "File already exists", Empty), "false")
                   ELSE Return(Speak(Touch(t, filename), "Created", filename), "true"),
        LAMBDA t : Return(Speak(t, "Could not create file", Empty), "false"))

\* delete_file from the test file_path.exists() on, the test having given seen
DeleteAfterTest(s, filename, seen) ==
    Try(s,
        LAMBDA t : IF ~seen
                   THEN Return(Speak(t, "File not found", Empty), "false")
                   ELSE Return(Speak(UnlinkNow(t, filename), "Deleted", filename), "true"),
        LAMBDA t : Return(Speak(t, "Could not delete file", Empty), "false"))

\* caller c enters execute with a file command
RaceCall(c) ==
    /\ calls[c].pc = "idle"
    /\ \E command \in RaceCommands :
        calls' = [calls EXCEPT ![c] = [NoCall EXCEPT !.pc = "called", !.cmd = command]]
    /\ UNCHANGED corevars
    /\ UNCHANGED <<is_listening, is_authenticated, start_btn, stop_btn, login_btn,
                   register_btn, logout_btn, threads, workers, typed, closed>>

\* the call of c has validated its filename and tests file_path.exists()
RaceTest(c) ==
    /\ calls[c].pc = "called"
    /\ _validate_filename(calls[c].cmd.parameters.filename)
    /\ calls' = [calls EXCEPT ![c].pc = "tested",
                              ![c].seen = Exists(Start(Healthy), calls[c].cmd.parameters.filename)]
    /\ UNCHANGED corevars
    /\ UNCHANGED <<is_listening, is_authenticated, start_btn, stop_btn, login_btn,
                   register_btn, logout_btn, threads, workers, typed, closed>>

\* the call of c acts on what its test gave, and returns
RaceAct(c) ==
    /\ calls[c].pc = "tested"
    /\ LET filename == calls[c].cmd.parameters.filename
           s == IF calls[c].cmd.intent = "create_file"
                THEN CreateAfterTest(Start(Healthy), filename, calls[c].seen)
                ELSE DeleteAfterTest(Start(Healthy), filename, calls[c].seen)
       IN  /\ files' = s.files
           /\ calls' = [calls EXCEPT ![c].pc = "done", ![c].result = Outcome(s)]
    /\ UNCHANGED <<platform, registry, app_paths, procs, volume, cmd, env, before, result, trace>>
    /\ UNCHANGED <<is_listening, is_authenticated, start_btn, stop_btn, login_btn,
                   register_btn, logout_btn, threads, workers, typed, closed>>

InitRace ==
    /\ platform = "Linux"
    /\ registry = [kind |-> "missing", apps |-> <<>>]
    /\ app_paths = _load_app_paths(registry)
    /\ files \in SUBSET FileNames
    /\ procs = {}
    /\ volume = 50
    /\ cmd = EmptyCommand
    /\ env = Healthy
    /\ before = World
    /\ result = "none"
    /\ trace = <<>>
    /\ UIInit

NextRace == \E c \in Callers : RaceCall(c) \/ RaceTest(c) \/ RaceAct(c)

SpecRace == InitRace /\ [][NextRace]_vars

----------------------------------------------------------------------------
(* Properties *)

\* what the properties say about a filename, spelled out on its characters
ContainsDotDot(f) == \E i \in 1..(Len(f) - 1) : f[i] = "." /\ f[i + 1] = "."

LeadingRoot(f) == Len(f) > 0 /\ f[1] = "/"

ContainsMeta(f) ==
    \E i \in 1..Len(f) : f[i] \in {"|", "&", ";", "BACKTICK", "$", "(", ")"}

\* C1, as stated: _validate_filename rejects every filename that contains
\* ".." or starts with "/", and accepts every filename that has no "..", no
\* leading "/" and no shell metacharacter.
C1_AcceptsEveryCleanName ==
    result \in {"valid", "invalid"} =>
        /\ (ContainsDotDot(Filename) \/ LeadingRoot(Filename)) => result = "invalid"
        /\ (~ContainsDotDot(Filename) /\ ~LeadingRoot(Filename) /\ ~ContainsMeta(Filename))
              => result = "valid"

\* C1, amended: _validate_filename rejects every filename that contains ".."
\* or starts with "/", and accepts every non-empty filename that has no "..",
\* no leading "/" and no shell metacharacter; the empty filename is rejected.
C1_AcceptsEveryCleanNonEmptyName ==
    result \in {"valid", "invalid"} =>
        /\ (ContainsDotDot(Filename) \/ LeadingRoot(Filename)) => result = "invalid"
        /\ (Filename # Empty /\ ~ContainsDotDot(Filename) /\ ~LeadingRoot(Filename)
            /\ ~ContainsMeta(Filename)) => result = "valid"
        /\ Filename = Empty => result = "invalid"

\* a name with a dot and an inner separator has been accepted
C1_Witness ==
    /\ result = "valid"
    /\ Len(Filename) = 3
    /\ Filename[1] = "."
    /\ Filename[2] = "/"

\* C8, as stated: after loading a well-formed registry, looking up the declared
\* name of every entry yields that entry's path.
C8_EveryEntryRoundTrips ==
    result = "built" =>
        \A i \in 1..Len(registry.apps) :
            LookupByName(app_paths, registry.apps[i].name) = registry.apps[i].path

\* the entries after the i-th whose name is the same up to letter case
LaterSameName(apps, i) ==
    {j \in (i + 1)..Len(apps) : Lower(apps[j].name) = Lower(apps[i].name)}

\* C8, amended: after loading a well-formed registry, looking up the declared
\* name of an entry yields that entry's path when no later entry has the same
\* name up to letter case, and otherwise the path of the last such entry.
C8_LastEntryOfANameRoundTrips ==
    result = "built" =>
        \A i \in 1..Len(registry.apps) :
            LET later == LaterSameName(registry.apps, i)
                last == IF later = {} THEN i
                        ELSE CHOOSE j \in later : \A m \in later : m <= j
            IN  LookupByName(app_paths, registry.apps[i].name) = registry.apps[last].path

\* a registry of two entries with different names, one with a capital, is loaded
C8_Witness ==
    /\ result = "built"
    /\ Len(registry.apps) = 2
    /\ Lower(registry.apps[1].name) # Lower(registry.apps[2].name)
    /\ Lower(registry.apps[1].name) # registry.apps[1].name
    /\ registry.apps[1].path # registry.apps[2].path

\* the last state is the return of a call
Called == result # "none"

\* the last command is of category cat with one of the intents
Is(cat, intents) == cmd.keys # {} /\ cmd.category = cat /\ cmd.intent \in intents

\* what the last call did besides speaking
OsEvents == {i \in DOMAIN trace : trace[i].op # "speak"}

\* a non-blocking speak of a message
Said(text, arg) == Ev("speak", text, arg, 0, FALSE)

InvalidName(f) == f = Empty \/ ContainsDotDot(f) \/ LeadingRoot(f) \/ ContainsMeta(f)

\* C2: a file command (open_file, create_file, delete_file) whose filename
\* fails validation does nothing to the outside world: no file is created or
\* deleted, nothing is opened or spawned, under any name; the call never
\* succeeds, and it returns failure with the message "Invalid filename" when
\* the feedback call returns.
C2_InvalidFilenameStopsTheCommand ==
    (Called /\ Is("file", {"open_file", "create_file", "delete_file"})
       /\ InvalidName(Filename)) =>
        /\ files = before.files
        /\ OsEvents = {}
        /\ result # "true"
        /\ env.k < 2 => result = "false"
        /\ env.k = 0 => trace = <<Said("Invalid filename", Empty)>>

\* create_file with a name that holds a shell metacharacter has been refused
C2_Witness ==
    /\ Called /\ Is("file", {"create_file"})
    /\ ContainsMeta(Filename)
    /\ result = "false"
    /\ trace = <<Said("Invalid filename", Empty)>>

\* C3: every call of execute returns a result; no exception leaves execute,
\* whatever the command and whichever collaborator call fails.
C3_ExecuteNeverRaises == Called => result \in {"true", "false"}

KnownIntents(category) ==
    CASE category = "system" -> {"shutdown", "restart", "sleep", "lock"}
      [] category = "application" -> {"open", "close"}
      [] category = "file" -> {"open_file", "create_file", "delete_file", "list_files"}
      [] category = "web" -> {"open_website", "search_google", "search_youtube"}
      [] category = "system_info" ->
           {"system_info", "battery", "disk_space", "memory", "cpu", "network"}
      [] category = "volume" -> {"volume_up", "volume_down", "mute"}
      [] category = "control" -> {"stop_listening", "wake_up"}
      [] OTHER -> {}

\* C4: a command whose (category, intent) is not in the vocabulary returns
\* failure and does nothing to the outside world (the collaborators all work).
C4_UnknownCommandFails ==
    (Called /\ cmd.keys # {} /\ env = Healthy
       /\ cmd.intent \notin KnownIntents(cmd.category)) =>
        /\ result = "false"
        /\ OsEvents = {}

\* C5: the absolute level that volume_up or volume_down sets lies in 0..100,
\* for a current volume in 0..100 and any amount.
C5_SetLevelInRange ==
    (Called /\ Is("volume", {"volume_up", "volume_down"}) /\ before.volume \in 0..100) =>
        \A i \in DOMAIN trace : trace[i].op = "set_volume" => trace[i].num \in 0..100

\* C6: delete_file and open_file of a valid filename that does not exist leave
\* the files as they are, spawn nothing and never succeed; they return failure,
\* with the message "File not found" when the feedback call returns.
C6_MissingFileIsNotFound ==
    (Called /\ Is("file", {"delete_file", "open_file"})
       /\ ~InvalidName(Filename) /\ PathNorm(Filename) \notin before.files) =>
        /\ files = before.files
        /\ OsEvents = {}
        /\ result # "true"
        /\ env.k < 3 => result = "false"
        /\ env.k = 0 => trace = <<Said("File not found", Empty)>>

\* delete_file of a missing file has answered "File not found" while another
\* file exists
C6_Witness ==
    /\ Called /\ Is("file", {"delete_file"})
    /\ ~InvalidName(Filename) /\ PathNorm(Filename) \notin before.files
    /\ before.files # {}
    /\ result = "false"
    /\ trace = <<Said("File not found", Empty)>>

\* the app_name the application handler works with
AppName == Lower(Get(cmd.parameters, "app_name", Empty))

\* the live processes whose lowercased name contains a
Matching(a, ps) == {p \in ps : IsSubstr(a, Lower(p))}

\* C7: every application.close of an application with no matching live
\* process, however often it is repeated, sends no terminate signal and never
\* succeeds; it returns failure, with the one message "<app> is not running"
\* when the feedback call returns.
C7_CloseOfStoppedAppIsIdempotent ==
    (Called /\ Is("application", {"close"}) /\ AppName # Empty
       /\ Matching(AppName, before.procs) = {}) =>
        /\ OsEvents = {}
        /\ result # "true"
        /\ env.k < 2 => result = "false"
        /\ env.k = 0 => trace = <<Said("is not running", AppName)>>

\* close of an application that is not running, while other processes live
C7_Witness ==
    /\ Called /\ Is("application", {"close"}) /\ AppName # Empty
    /\ Matching(AppName, before.procs) = {}
    /\ before.procs = {P1, P2}
    /\ result = "false"
    /\ trace = <<Said("is not running", AppName)>>

C9_GooglePrefix == <<"h", "t", "t", "p", "s", ":", "/", "/", "w", "w", "w", ".", "g", "o", "o", "g", "l", "e", ".", "c", "o", "m", "/", "s", "e", "a", "r", "c", "h", "?", "q", "=">>

C9_YoutubePrefix == <<"h", "t", "t", "p", "s", ":", "/", "/", "w", "w", "w", ".", "y", "o", "u", "t", "u", "b", "e", ".", "c", "o", "m", "/", "r", "e", "s", "u", "l", "t", "s", "?", "s", "e", "a", "r", "c", "h", "_", "q", "u", "e", "r", "y", "=">>

\* the query with every space replaced by "+"
PlusForSpace(q) == [i \in 1..Len(q) |-> IF q[i] = " " THEN "+" ELSE q[i]]

Query == Get(cmd.parameters, "query", Empty)

\* C9: search_google and search_youtube of a non-empty query open exactly one
\* url, the search prefix followed by the query with every space replaced by
\* "+", and return success with a message that holds the query (the
\* collaborators all work); an empty query opens no url and never succeeds.
C9_SearchOpensTheEncodedUrl ==
    (Called /\ Is("web", {"search_google", "search_youtube"})) =>
        LET prefix == IF cmd.intent = "search_google" THEN C9_GooglePrefix
                      ELSE C9_YoutubePrefix
            template == IF cmd.intent = "search_google" THEN "Searching for"
                        ELSE "Searching YouTube for"
            opened == Ev("open_url", "", prefix \o PlusForSpace(Query), 0, FALSE)
        IN  /\ (Query # Empty /\ env = Healthy) =>
                  /\ trace = <<opened, Said(template, Query)>>
                  /\ result = "true"
            /\ Query # Empty =>
                  \A i \in OsEvents : i = 1 /\ trace[i] = opened
            /\ Query = Empty =>
                  /\ OsEvents = {}
                  /\ result # "true"
                  /\ env.k < 2 => result = "false"

\* a search of a query with spaces has succeeded
C9_Witness ==
    /\ Called /\ Is("web", {"search_google"})
    /\ Query = <<"a", " ", "b">>
    /\ result = "true"
    /\ Len(trace) = 2

\* C10: create_file of a valid filename that exists never succeeds and leaves
\* every file as it is; of a valid filename that does not exist it creates
\* that file and no other and returns success (the collaborators all work), so
\* that the file exists for every later create_file.
C10_CreateFailsOnExistingFile ==
    (Called /\ Is("file", {"create_file"}) /\ ~InvalidName(Filename)) =>
        LET f == PathNorm(Filename)
        IN  /\ f \in before.files =>
                  /\ files = before.files
                  /\ OsEvents = {}
                  /\ result # "true"
                  /\ env.k < 3 => result = "false"
                  /\ env.k = 0 => trace = <<Said("File already exists", Empty)>>
            /\ (f \notin before.files /\ env = Healthy) =>
                  /\ files = before.files \cup {f}
                  /\ result = "true"
            /\ f \notin before.files => files \in {before.files, before.files \cup {f}}

\* a file has been created next to another one
C10_Witness ==
    /\ Called /\ Is("file", {"create_file"})
    /\ before.files = {<<"b">>}
    /\ files = {<<"a">>, <<"b">>}
    /\ result = "true"

\* what C11 calls a missing or malformed registry file, spelled out on the file
Malformed(reg) ==
    \/ reg.kind \in {"missing", "invalid_json", "not_object"}
    \/ \E i \in 1..Len(reg.apps) :
          "name" \notin DOMAIN reg.apps[i] \/ "path" \notin DOMAIN reg.apps[i]

\* C11: whatever the registry file is, the construction of the Executor
\* completes and loading does not raise; when the file is missing, is not
\* valid JSON, has a top level that is not an object or has an entry without
\* name or path, the registry is the empty mapping.
C11_MalformedRegistryLoadsEmpty ==
    result # "none" =>
        /\ result = "built"
        /\ Malformed(registry) => app_paths = <<>>

\* a registry whose first entry is complete and whose second has no path has
\* been loaded as the empty mapping
C11_Witness ==
    /\ result = "built"
    /\ registry.kind = "ok"
    /\ Len(registry.apps) = 2
    /\ DOMAIN registry.apps[1] = {"name", "path"}
    /\ DOMAIN registry.apps[2] = {"name"}
    /\ app_paths = <<>>

\* C12: every execute call, whatever its category, intent and parameters and
\* whether it succeeds, fails or raises, leaves app_paths and platform as the
\* construction of the Executor set them.
C12_ExecuteLeavesRegistryAndPlatform ==
    [][app_paths' = app_paths /\ platform' = platform]_vars

\* an application has been launched from its registry entry, and the
\* registry still holds the entry
C12_Witness ==
    /\ Called
    /\ Is("application", {"open"})
    /\ result = "true"
    /\ AppName \in Keys(app_paths)
    /\ \E i \in 1..Len(trace) :
          trace[i].op = "spawn" /\ trace[i].arg = PathOf(app_paths, AppName)

\* the events that change or mute the output volume
VolumeEvents ==
    {i \in DOMAIN trace : trace[i].op \in {"change_volume", "set_volume", "mute"}}

\* C13: on a platform without a volume-control utility (no branch of the
\* handler for the platform, or the helper program cannot be started),
\* volume_up, volume_down and mute return failure with the message that
\* volume control is unavailable; they never return success without having
\* changed or muted the volume.
C13_VolumeUnavailableFails ==
    (Called /\ Is("volume", {"volume_up", "volume_down", "mute"}) /\ env.k = 0) =>
        /\ (platform \notin {"Windows", "Darwin"} \/ env.os = "raise") =>
              /\ result = "false"
              /\ trace = <<Said("Volume control not available", Empty)>>
        /\ result = "true" => VolumeEvents # {}

\* the feedback messages of the last call
Messages == {i \in DOMAIN trace : trace[i].op = "speak"}

\* C14: every execute call yields one boolean outcome and exactly one feedback
\* message, on every path: success, validation failure, unknown intent and
\* handler exception; never zero messages and never two.
C14_ExactlyOneMessage ==
    (Called /\ env.k = 0) =>
        /\ result \in {"true", "false"}
        /\ Cardinality(Messages) = 1

\* C16: no failure inside an iteration of the listening loop (the speech
\* collaborator, the parser or the Executor raising, the execution failing,
\* the handling of the result raising) ends the loop: a thread finishes only
\* from the test of the loop condition, and only when is_listening is false;
\* while is_listening is true the test leads to the next utterance.
C16_FailuresDoNotEndTheLoop ==
    [][\A i \in DOMAIN threads :
          /\ (threads'[i].pc = "done" /\ threads[i].pc # "done") =>
                threads[i].pc = "top" /\ ~is_listening
          /\ (threads[i].pc = "top" /\ is_listening /\ threads'[i].pc # "top") =>
                threads'[i].pc = "listen"
          /\ (threads[i].pc \in {"listen", "heard", "executing", "handle"}
              /\ threads'[i].pc # threads[i].pc
              /\ threads'[i].last = "error") => threads'[i].pc = "top"]_vars

\* after an iteration that ended in the exception handler, a thread is waiting
\* for the next utterance
C16_Witness ==
    \E i \in DOMAIN threads :
        threads[i].pc = "listen" /\ threads[i].last = "error" /\ is_listening

\* C17: when the listening loop has heard and executed control.stop_listening,
\* is_listening is false by the end of that iteration, so that the loop ends
\* without accepting a further utterance.
C17_StopListeningEndsTheLoop ==
    [][\A i \in DOMAIN threads :
          (/\ threads[i].pc = "handle"
           /\ threads[i].cmd.intent = "stop_listening"
           /\ threads[i].result = "true"
           /\ threads'[i].pc # "handle") =>
              ~is_listening' /\ threads'[i].pc # "listen"]_vars

\* C18: after _stop_listening or closeEvent a listening thread finishes at
\* most the iteration in flight: once it is back at the test of the loop
\* condition it starts no new iteration.
C18_StoppedThreadStartsNoIteration ==
    [][\A i \in DOMAIN threads :
          (threads[i].stopped /\ threads[i].pc = "top") => threads'[i].pc # "listen"]_vars

\* the listening threads that are between hearing an utterance and the end of
\* its handling
Processing == {i \in DOMAIN threads : threads[i].pc \in {"heard", "executing", "handle"}}

\* C19: on the voice path utterances are processed one at a time: at most one
\* is being parsed, executed or reported at any moment, and no two executions
\* are in progress together.
C19_VoicePathIsSequential ==
    /\ Cardinality(Processing) <= 1
    /\ Cardinality({i \in DOMAIN threads : threads[i].pc = "executing"}) <= 1

\* C20: a command is handed to Executor.execute, by a listening thread or by
\* the typed-command path, only while is_authenticated is true.
C20_ExecuteOnlyWhenAuthenticated ==
    [][(\/ \E i \in DOMAIN threads :
              threads[i].pc = "heard" /\ threads'[i].pc = "executing"
        \/ typed.pc = "idle" /\ typed'.pc = "executing") => is_authenticated]_vars

\* what a file command returns when it runs alone on the files fs
AloneResult(fs, command) ==
    IF command.intent = "create_file"
    THEN (IF command.parameters.filename \in fs THEN "false" ELSE "true")
    ELSE (IF command.parameters.filename \in fs THEN "true" ELSE "false")

\* the files it leaves
AloneFiles(fs, command) ==
    IF command.intent = "create_file" THEN fs \cup {command.parameters.filename}
    ELSE fs \ {command.parameters.filename}

\* the two calls, first c1 then c2, one after the other from the files the
\* callers started on, give the results and the files of this state
SameAsInOrder(c1, c2) ==
    LET mid == AloneFiles(before.files, calls[c1].cmd)
    IN  /\ calls[c1].result = AloneResult(before.files, calls[c1].cmd)
        /\ calls[c2].result = AloneResult(mid, calls[c2].cmd)
        /\ files = AloneFiles(mid, calls[c2].cmd)

\* C15: for every interleaving of two execute calls, the two results and the
\* final files are those of the two calls in some sequential order; of two
\* calls of create_file for the same missing file exactly one succeeds.
C15_ConcurrentCallsAreSerializable ==
    (calls["voice"].pc = "done" /\ calls["typed"].pc = "done") =>
        /\ SameAsInOrder("voice", "typed") \/ SameAsInOrder("typed", "voice")
        /\ (/\ calls["voice"].cmd = calls["typed"].cmd
            /\ calls["voice"].cmd.intent = "create_file"
            /\ calls["voice"].cmd.parameters.filename \notin before.files) =>
              Cardinality({c \in Callers : calls[c].result = "true"}) = 1

\* the entries of the alias table whose key contains a or is contained in a
AliasMatches(a) ==
    {i \in 1..Len(CommonKeys) : IsSubstr(a, CommonKeys[i]) \/ IsSubstr(CommonKeys[i], a)}

FirstAlias(a) == CHOOSE i \in AliasMatches(a) : \A j \in AliasMatches(a) : i <= j

\* the first thing the last call did is the launch the name resolves to
FirstIsResolvedLaunch ==
    /\ trace # <<>>
    /\ trace[1].op = "spawn"
    /\ IF AppName \in Keys(app_paths)
       THEN trace[1].arg = PathOf(app_paths, AppName)
       ELSE trace[1].text = CommonProgram(FirstAlias(AppName))

\* C21: application.open resolves a non-empty app_name by its exact key in the
\* registry, otherwise by the first entry of the alias table whose key
\* contains it or is contained in it, and launches that without waiting, with
\* the message "Opening <app>" and success when the feedback call returns;
\* an empty app_name, or one that neither resolves, spawns nothing and returns
\* failure with "Please specify application name" / "Could not find <app>".
C21_OpenResolvesRegistryThenAlias ==
    (Called /\ Is("application", {"open"})) =>
        /\ \A i \in DOMAIN trace : trace[i].op # "run"
        /\ (AppName = Empty \/ (AppName \notin Keys(app_paths) /\ AliasMatches(AppName) = {})) =>
              /\ OsEvents = {}
              /\ result # "true"
              /\ env.k = 0 =>
                    /\ result = "false"
                    /\ trace = <<IF AppName = Empty
                                 THEN Said("Please specify application name", Empty)
                                 ELSE Said("Could not find", AppName)>>
        /\ (/\ AppName # Empty
            /\ AppName \in Keys(app_paths) \/ AliasMatches(AppName) # {}
            /\ env.os = "ok") =>
              /\ FirstIsResolvedLaunch
              /\ env.k = 0 =>
                    /\ result = "true"
                    /\ Len(trace) = 2
                    /\ trace[2] = Said("Opening", AppName)

\* a name that is a registry key and also matches the alias table has been
\* launched from the registry
C21_WitnessRegistryFirst ==
    /\ Called
    /\ Is("application", {"open"})
    /\ AppName = <<"e">>
    /\ AliasMatches(AppName) # {}
    /\ result = "true"
    /\ trace[1].op = "spawn"
    /\ trace[1].arg = <<"y">>

\* a name that only contains an alias key has been launched through the table
C21_Witness ==
    /\ Called
    /\ Is("application", {"open"})
    /\ AppName = EDGE \o <<"s">>
    /\ result = "true"
    /\ Len(trace) = 2
    /\ trace[1].op = "spawn"

\* the processes the last call sent a terminate signal to
Terminated == {trace[i].arg : i \in {j \in DOMAIN trace : trace[j].op = "terminate"}}

\* C22: application.close with a non-empty app_name sends a terminate signal,
\* and nothing stronger, to every live process whose lowercased name contains
\* app_name and to no other process; it returns success exactly when at least
\* one live process name contained app_name.
C22_CloseTerminatesExactlyTheMatches ==
    (Called /\ Is("application", {"close"}) /\ AppName # Empty /\ env.k = 0) =>
        /\ \A i \in OsEvents : trace[i].op = "terminate"
        /\ Terminated = Matching(AppName, before.procs)
        /\ result = "true" <=> Matching(AppName, before.procs) # {}

\* the url parameter of the last command
Url == Get(cmd.parameters, "url", Empty)

\* the urls the last call handed to the browser
Opened == {trace[i].arg : i \in {j \in DOMAIN trace : trace[j].op = "open_url"}}

HasScheme(u) == StartsWith(u, HTTP) \/ StartsWith(u, HTTPS)

\* what follows the last "/" of u
FinalSegment(u) ==
    LET slashes == {i \in 1..Len(u) : u[i] = "/"}
        last == IF slashes = {} THEN 0
                ELSE CHOOSE i \in slashes : \A j \in slashes : j <= i
    IN  SubSeq(u, last + 1, Len(u))

\* u with "https://" in front exactly when it has no scheme, then ".com"
\* behind exactly when its final path segment has no dot
Heuristic(u) ==
    LET v == IF HasScheme(u) THEN u ELSE HTTPS \o u
    IN  IF \E i \in 1..Len(FinalSegment(v)) : FinalSegment(v)[i] = "." THEN v
        ELSE v \o DOTCOM

\* u has a scheme and a dot in what follows it
SchemeAndDottedHost(u) ==
    HasScheme(u) /\ \E i \in 1..Len(u) : u[i] = "."

PowerIntents == {"shutdown", "restart", "sleep", "lock"}

\* the feedback of a system intent: its text and whether the call blocks
PowerFeedback(intent) ==
    CASE intent = "shutdown" -> Ev("speak", "Shutting down system", Empty, 0, TRUE)
      [] intent = "restart" -> Ev("speak", "Restarting system", Empty, 0, TRUE)
      [] intent = "sleep" -> Ev("speak", "Putting system to sleep", Empty, 0, FALSE)
      [] OTHER -> Ev("speak", "Locking screen", Empty, 0, FALSE)

\* C24: for shutdown and restart the feedback is spoken by a blocking call
\* and for sleep and lock by a non-blocking one; in all four the feedback
\* call comes before the OS command: an OS command is issued only after the
\* feedback call has returned, never before it and never when it raised.
C24_FeedbackPrecedesPowerCommand ==
    (Called /\ Is("system", PowerIntents)) =>
        /\ env.k = 0 => trace # <<>> /\ trace[1] = PowerFeedback(cmd.intent)
        /\ \A i \in OsEvents :
              /\ i > 1
              /\ trace[i].op = "run"
        /\ env.k > 0 => OsEvents = {}
        /\ (env.k = 0 /\ env.os # "raise") => OsEvents = {2}

\* a shutdown spoke its blocking feedback and then ran the power command
C24_Witness ==
    /\ Called /\ Is("system", {"shutdown"})
    /\ Len(trace) = 2
    /\ trace[1] = PowerFeedback("shutdown") /\ trace[1].flag
    /\ trace[2].op = "run"
    /\ result = "true"

\* a sleep spoke its non-blocking feedback and then ran the power command
C24_WitnessNonBlocking ==
    /\ Called /\ Is("system", {"sleep"})
    /\ Len(trace) = 2
    /\ trace[1] = PowerFeedback("sleep") /\ ~trace[1].flag
    /\ trace[2].op = "run"

\* C25: file.list_files, a command without a filename parameter, succeeds
\* and reports the number of regular files of the working directory, without
\* creating, deleting or opening any file.
C25_ListFilesCountsRegularFiles ==
    (Called /\ Is("file", {"list_files"}) /\ "filename" \notin cmd.parameters.keys) =>
        /\ files = before.files
        /\ OsEvents = {}
        /\ (env.k = 0 /\ env.os = "ok") =>
              /\ result = "true"
              /\ trace = <<Ev("speak", "Found files", Empty, Cardinality(before.files), FALSE)>>

\* the parameter an intent requires, "" when it requires none
RequiredParameter ==
    CASE Is("application", {"open", "close"}) -> "app_name"
      [] Is("file", {"open_file", "create_file", "delete_file"}) -> "filename"
      [] Is("web", {"open_website"}) -> "url"
      [] Is("web", {"search_google", "search_youtube"}) -> "query"
      [] OTHER -> ""

\* the messages that name a missing field
MissingFieldMessages ==
    [app_name |-> "Please specify application name",
     filename |-> "Please specify filename",
     url |-> "Please specify website",
     query |-> "Please specify search query"]

\* C26: a command of an intent with a required parameter (app_name, filename,
\* url, query) that lacks the parameter fails with a message that names the
\* missing field and is neither "Invalid filename" nor "File not found"; it
\* does nothing else.
C26_MissingParameterIsNamed ==
    (Called /\ RequiredParameter # "" /\ RequiredParameter \notin cmd.parameters.keys) =>
        /\ OsEvents = {}
        /\ env.k = 0 =>
              /\ result = "false"
              /\ trace = <<Said(MissingFieldMessages[RequiredParameter], Empty)>>
              /\ trace[1].text \notin {"Invalid filename", "File not found"}

\* the messages the system and volume handlers speak when the OS call failed
OsFailureMessages ==
    {"Shutdown failed. May require administrator privileges", "Restart failed",
     "Sleep failed", "Lock failed", "Volume control not available"}

\* the last command is a system or volume intent that makes an OS call
MakesOsCall ==
    \/ Is("system", PowerIntents)
    \/ Is("volume", {"volume_up", "volume_down", "mute"}) /\ platform \in {"Windows", "Darwin"}

\* C27: when the OS call of a system or volume intent fails (the command
\* cannot be spawned or exits with a non-zero status) execute returns false
\* with a specific failure message; it returns true only when the OS call
\* succeeded.
C27_FailedOsCallFails ==
    (Called /\ MakesOsCall /\ env.k = 0) =>
        /\ env.os # "ok" =>
              /\ result = "false"
              /\ trace # <<>>
              /\ trace[Len(trace)].op = "speak"
              /\ trace[Len(trace)].text \in OsFailureMessages
        /\ result = "true" => env.os = "ok"

\* the listening threads that have not left listen()
Running == {i \in DOMAIN threads : threads[i].pc # "done"}

\* C28: at most one listening thread is running its loop at any time,
\* whatever the sequence of Start Listening, Stop Listening, logout and login,
\* a Stop followed by a Start while the previous thread is still blocked in
\* the next-utterance call included.
C28_AtMostOneListeningThread == Cardinality(Running) <= 1

\* C29: in every state of the window the Start Listening button is enabled
\* only if the user is authenticated and not listening, the Stop Listening
\* button only if listening is active, and the two are never enabled
\* together, for every sequence of login, logout, start, stop and failed
\* login while the window is open.
C29_ButtonsFollowTheState ==
    ~closed =>
        /\ start_btn => is_authenticated /\ ~is_listening
        /\ stop_btn => is_listening
        /\ ~(start_btn /\ stop_btn)

====
